---- MODULE Spec2Model ----
(***************************************************************************)
(* gcp-quota-comparer: main.go compares the compute quotas of every        *)
(* "from" project with the first "to" project whose id matches a pattern   *)
(* derived from the from-project's id, at project and at region level.     *)
(***************************************************************************)
EXTENDS Integers, Sequences, FiniteSets, TLC

\* ------------------------------------------------------------------ bounds
MaxFrom == 2
MaxTo == 2
\* Largest response of the quota API in a run: regions plus quota entries.
MaxResponse == 1
\* Largest snapshot handed to the comparison on its own.
MaxSnapshot == 3

\* --------------------------------------------------------- value universes
Metrics == {"CPUS", "DISKS_TOTAL_GB"}
Limits == {24, 32}
RegionNames == {"us-east1", "europe-west1"}

\* A nil pointer is the empty sequence, a non-nil pointer a one-element one.
Nil == <<>>
Ptr(x) == <<x>>

\* cloudresourcemanager.Project, as far as main.go reads it.
FromCandidates ==
  { [ProjectId |-> "prj-dev-billing-ab12", Name |-> "Billing Dev"],
    [ProjectId |-> "prj-dev-web-cd34", Name |-> "Web Dev"],
    [ProjectId |-> "legacy-tools", Name |-> "Legacy Tools"] }

ToCandidates ==
  { [ProjectId |-> "prj-stg-billing-ef56", Name |-> "Billing Staging"],
    [ProjectId |-> "prj-prod-billing-gh78", Name |-> "Billing Prod"],
    [ProjectId |-> "prj-stg-api-ij90", Name |-> "Api Staging"] }

\* The '-'-separated segments of a project id.
Segments(id) ==
  CASE id = "prj-dev-billing-ab12" -> <<"prj", "dev", "billing", "ab12">>
    [] id = "prj-dev-web-cd34" -> <<"prj", "dev", "web", "cd34">>
    [] id = "legacy-tools" -> <<"legacy", "tools">>
    [] id = "prj-stg-billing-ef56" -> <<"prj", "stg", "billing", "ef56">>
    [] id = "prj-prod-billing-gh78" -> <<"prj", "prod", "billing", "gh78">>
    [] id = "prj-stg-api-ij90" -> <<"prj", "stg", "api", "ij90">>

\* The sequences of length 0..n over the set S.
RECURSIVE SeqsUpTo(_, _)
SeqsUpTo(S, n) ==
  IF n = 0 THEN {<<>>}
  ELSE LET shorter == SeqsUpTo(S, n - 1)
       IN shorter \cup
          { Append(s, x) : s \in {t \in shorter : Len(t) = n - 1}, x \in S }

Range(s) == { s[k] : k \in 1..Len(s) }
Injective(s) == Cardinality(Range(s)) = Len(s)

\* A project listing: lo..hi different projects of S, in any order.
ProjectLists(S, lo, hi) ==
  { s \in SeqsUpTo(S, hi) : Len(s) >= lo /\ Injective(s) }

\* compute.Quota; a quota list may name a metric twice.
Quota == [Metric : Metrics, Limit : Limits]

RECURSIVE QuotaLists(_)
QuotaLists(n) ==
  IF n = 0 THEN {<<>>}
  ELSE LET shorter == QuotaLists(n - 1)
       IN shorter \cup
          { Append(s, q) : s \in {t \in shorter : Len(t) = n - 1}, q \in Quota }

\* compute.Region; the regions of one list have different names.
Regions(n) == [Name : RegionNames, Quotas : QuotaLists(n)]

RECURSIVE SumQuotas(_)
SumQuotas(regions) ==
  IF regions = <<>> THEN 0
  ELSE Len(Head(regions).Quotas) + SumQuotas(Tail(regions))

RegionListSize(regions) == Len(regions) + SumQuotas(regions)

RegionLists(n) ==
  IF n = 0 THEN {<<>>}
  ELSE { s \in SeqsUpTo(Regions(n - 1), Cardinality(RegionNames)) :
           /\ RegionListSize(s) <= n
           /\ \A a, b \in 1..Len(s) : s[a].Name = s[b].Name => a = b }

\* What the two queries of GetQuotas can deliver for one project: the quota
\* list of Projects.Get and the region list of Regions.List (nil when it fails).
Snapshots(n) ==
  UNION { { [project |-> q, regionList |-> Nil] : q \in {t \in QuotaLists(n) : Len(t) = k} }
          \cup
          { [project |-> q, regionList |-> Ptr(r)] :
              q \in {t \in QuotaLists(n) : Len(t) = k}, r \in RegionLists(n - k) } :
          k \in 0..n }

RunSnapshots == Snapshots(MaxResponse)
DiffSnapshots == Snapshots(MaxSnapshot)

VARIABLES fromProjects, toProjects, pc, idx, projectName, toProjectFound,
          fromProjectQuotas, toProjectQuotas, issues, logs, calls

vars == <<fromProjects, toProjects, pc, idx, projectName, toProjectFound,
          fromProjectQuotas, toProjectQuotas, issues, logs, calls>>


\* --------------------------------------------------------- the two patterns
\* \w+ : a non-empty segment (segments of project ids hold only word characters).
IsWord(seg) == Len(seg) > 0
\* [a-zA-Z0-9]{4}$ : the last segment has exactly four characters.
IsSuffix(seg) == Len(seg) = 4

\* Start positions at which `prj-\w+-(.*)-[a-zA-Z0-9]{4}$` matches the segments.
MatchStarts(segs) ==
  { s \in 1..Len(segs) :
      /\ segs[s] = "prj"
      /\ s + 3 <= Len(segs)
      /\ IsWord(segs[s + 1])
      /\ IsSuffix(segs[Len(segs)]) }

Min(S) == CHOOSE m \in S : \A n \in S : m <= n

\* r.FindStringSubmatch(id) for the default --regex.from: nil when the pattern
\* does not match, else <<whole match, group 1>> (leftmost match, greedy group).
FindStringSubmatch(id) ==
  LET segs == Segments(id)
      starts == MatchStarts(segs)
  IN IF starts = {} THEN Nil
     ELSE LET s == Min(starts)
          IN << SubSeq(segs, s, Len(segs)), SubSeq(segs, s + 2, Len(segs) - 1) >>

\* regexp.MustCompile(fmt.Sprintf(*regexTo, projectName)).MatchString(id) for the
\* default --regex.to `prj-\w+-%s-[a-zA-Z0-9]{4}$`.
MatchString(name, id) ==
  LET segs == Segments(id)
      n == Len(segs)
      k == Len(name)
  IN /\ n >= k + 3
     /\ segs[n - k - 2] = "prj"
     /\ IsWord(segs[n - k - 1])
     /\ SubSeq(segs, n - k, n - 1) = name
     /\ IsSuffix(segs[n])

\* FirstMatch without the break: the last matching element wins.
FirstMatch_Last(name, projects) ==
  LET hits == { k \in 1..Len(projects) : MatchString(name, projects[k].ProjectId) }
  IN IF hits = {} THEN <<>>
     ELSE << projects[CHOOSE m \in hits : \A n \in hits : n <= m] >>

\* The inner loop over toProjects: the first element whose id matches, or nil.
FirstMatch(name, projects) ==
  LET hits == { k \in 1..Len(projects) : MatchString(name, projects[k].ProjectId) }
  IN IF hits = {} THEN Nil ELSE Ptr(projects[Min(hits)])

\* ------------------------------------------------------------------- GetQuotas
LogEntry(kind, project, region, metric) ==
  [kind |-> kind, project |-> project, region |-> region, metric |-> metric]

\* What one call of GetQuotas can do: exit the process (log.Fatalf), return an
\* error, or return a (possibly nil) *Quotas; with the lines it logs.
QuotasOf(projectId, snapshots) ==
  { [exits |-> FALSE, err |-> TRUE, quotas |-> Nil, logs |-> <<>>] }
  \cup
  { [exits |-> TRUE, err |-> FALSE, quotas |-> Nil, logs |-> <<>>] }
  \cup
  { [exits |-> FALSE, err |-> FALSE, quotas |-> Nil,
     logs |-> << LogEntry("project_query_failed", "", "", "") >>] }
  \cup
  { [exits |-> FALSE, err |-> FALSE,
     quotas |-> Ptr([projectId |-> projectId, project |-> s.project,
                     regionList |-> s.regionList]),
     logs |-> IF s.regionList = Nil
              THEN << LogEntry("region_query_failed", "", "", "") >>
              ELSE <<>>] : s \in snapshots }

GetQuotas(projectId) == QuotasOf(projectId, RunSnapshots)

\* ------------------------------------------------------------- the comparison
Issue(fromProject, toProject, region, metric, fromLimit, toLimit) ==
  [fromProjectId |-> fromProject.Name, toProjectId |-> toProject.Name,
   region |-> region, metric |-> metric,
   fromLimit |-> fromLimit, toLimit |-> toLimit]

\* Index of the first quota of the list with this metric, 0 when there is none.
FindQuota(quotas, metric) ==
  LET hits == { k \in 1..Len(quotas) : quotas[k].Metric = metric }
  IN IF hits = {} THEN 0 ELSE Min(hits)

\* CompareProjectQuotas without the `continue` of the missing-metric branch: the
\* missing metric is compared against a zero limit.
RECURSIVE CompareProjectQuotas_NoContinue(_, _, _, _)
CompareProjectQuotas_NoContinue(fromQuotas, toQuotas, fromProject, toProject) ==
  IF fromQuotas = <<>> THEN [issues |-> <<>>, logs |-> <<>>]
  ELSE
    LET q == Head(fromQuotas)
        k == FindQuota(toQuotas, q.Metric)
        toLimit == IF k = 0 THEN 0 ELSE toQuotas[k].Limit
        rest == CompareProjectQuotas_NoContinue(Tail(fromQuotas), toQuotas,
                                                fromProject, toProject)
        notice == IF k = 0
                  THEN << LogEntry("metric_missing", fromProject.ProjectId, "", q.Metric) >>
                  ELSE <<>>
    IN IF toLimit # q.Limit
       THEN [issues |-> << Issue(fromProject, toProject, "", q.Metric, q.Limit, toLimit) >>
                        \o rest.issues,
             logs |-> notice
                      \o << LogEntry("limit_differs", fromProject.ProjectId, "", q.Metric) >>
                      \o rest.logs]
       ELSE [issues |-> rest.issues, logs |-> notice \o rest.logs]

\* The project-level loop: the issues and log lines it adds, in order.
RECURSIVE CompareProjectQuotas(_, _, _, _)
CompareProjectQuotas(fromQuotas, toQuotas, fromProject, toProject) ==
  IF fromQuotas = <<>> THEN [issues |-> <<>>, logs |-> <<>>]
  ELSE
    LET q == Head(fromQuotas)
        k == FindQuota(toQuotas, q.Metric)
        rest == CompareProjectQuotas(Tail(fromQuotas), toQuotas, fromProject, toProject)
    IN IF k = 0
       THEN [issues |-> rest.issues,
             logs |-> << LogEntry("metric_missing", fromProject.ProjectId, "", q.Metric) >>
                      \o rest.logs]
       ELSE IF toQuotas[k].Limit # q.Limit
       THEN [issues |-> << Issue(fromProject, toProject, "", q.Metric,
                                 q.Limit, toQuotas[k].Limit) >> \o rest.issues,
             logs |-> << LogEntry("limit_differs", fromProject.ProjectId, "", q.Metric) >>
                      \o rest.logs]
       ELSE rest

\* CompareRegionQuotas with `<` in place of `!=`: only a larger target limit is
\* reported.
RECURSIVE CompareRegionQuotas_LessThan(_, _, _, _, _)
CompareRegionQuotas_LessThan(fromQuotas, toRegion, fromRegionName, fromProject, toProject) ==
  IF fromQuotas = <<>> THEN [issues |-> <<>>, logs |-> <<>>]
  ELSE
    LET q == Head(fromQuotas)
        k == FindQuota(toRegion.Quotas, q.Metric)
        rest == CompareRegionQuotas_LessThan(Tail(fromQuotas), toRegion, fromRegionName,
                                             fromProject, toProject)
    IN IF k = 0
       THEN [issues |-> rest.issues,
             logs |-> << LogEntry("metric_missing", fromProject.ProjectId,
                                  toRegion.Name, q.Metric) >> \o rest.logs]
       ELSE IF q.Limit < toRegion.Quotas[k].Limit
       THEN [issues |-> << Issue(fromProject, toProject, fromRegionName, q.Metric,
                                 q.Limit, toRegion.Quotas[k].Limit) >> \o rest.issues,
             logs |-> << LogEntry("limit_differs", fromProject.ProjectId,
                                  fromRegionName, q.Metric) >> \o rest.logs]
       ELSE rest

\* The quota loop of one region pair.
RECURSIVE CompareRegionQuotas(_, _, _, _, _)
CompareRegionQuotas(fromQuotas, toRegion, fromRegionName, fromProject, toProject) ==
  IF fromQuotas = <<>> THEN [issues |-> <<>>, logs |-> <<>>]
  ELSE
    LET q == Head(fromQuotas)
        k == FindQuota(toRegion.Quotas, q.Metric)
        rest == CompareRegionQuotas(Tail(fromQuotas), toRegion, fromRegionName,
                                    fromProject, toProject)
    IN IF k = 0
       THEN [issues |-> rest.issues,
             logs |-> << LogEntry("metric_missing", fromProject.ProjectId,
                                  toRegion.Name, q.Metric) >> \o rest.logs]
       ELSE IF toRegion.Quotas[k].Limit # q.Limit
       THEN [issues |-> << Issue(fromProject, toProject, fromRegionName, q.Metric,
                                 q.Limit, toRegion.Quotas[k].Limit) >> \o rest.issues,
             logs |-> << LogEntry("limit_differs", fromProject.ProjectId,
                                  fromRegionName, q.Metric) >> \o rest.logs]
       ELSE rest

\* Index of the first region of the list with this name, 0 when there is none.
FindRegion(regions, name) ==
  LET hits == { k \in 1..Len(regions) : regions[k].Name = name }
  IN IF hits = {} THEN 0 ELSE Min(hits)

\* The region loop over non-nil region lists.
RECURSIVE CompareRegions(_, _, _, _)
CompareRegions(fromRegions, toRegions, fromProject, toProject) ==
  IF fromRegions = <<>> THEN [issues |-> <<>>, logs |-> <<>>]
  ELSE
    LET fromRegion == Head(fromRegions)
        k == FindRegion(toRegions, fromRegion.Name)
        rest == CompareRegions(Tail(fromRegions), toRegions, fromProject, toProject)
    IN IF k = 0
       THEN [issues |-> rest.issues,
             logs |-> << LogEntry("region_missing", fromProject.ProjectId,
                                  fromRegion.Name, "") >> \o rest.logs]
       ELSE LET one == CompareRegionQuotas(fromRegion.Quotas, toRegions[k],
                                           fromRegion.Name, fromProject, toProject)
            IN [issues |-> one.issues \o rest.issues, logs |-> one.logs \o rest.logs]

\* ---------------------------------------------------------------------- main
Init ==
  /\ fromProjects \in ProjectLists(FromCandidates, 1, MaxFrom)
  /\ toProjects \in ProjectLists(ToCandidates, 0, MaxTo)
  /\ pc = "loop"
  /\ idx = 1
  /\ projectName = <<>>
  /\ toProjectFound = Nil
  /\ fromProjectQuotas = Nil
  /\ toProjectQuotas = Nil
  /\ issues = <<>>
  /\ logs = <<>>
  /\ calls = <<>>

fromProject == fromProjects[idx]

\* ExtractName with a guard on the match: a from-project without a name is
\* skipped.
ExtractName_Skip ==
  /\ pc = "loop"
  /\ idx <= Len(fromProjects)
  /\ LET projectNameMatch == FindStringSubmatch(fromProject.ProjectId)
     IN IF Len(projectNameMatch) < 2
        THEN /\ pc' = "loop"
             /\ idx' = idx + 1
             /\ UNCHANGED projectName
        ELSE /\ pc' = "fetchFrom"
             /\ projectName' = projectNameMatch[2]
             /\ UNCHANGED idx
  /\ toProjectFound' = <<>>
  /\ fromProjectQuotas' = <<>>
  /\ toProjectQuotas' = <<>>
  /\ UNCHANGED <<fromProjects, toProjects, issues, logs, calls>>

\* ExtractName with toProjectFound declared outside the loop: the match of the
\* previous from-project is still set.
ExtractName_Stale ==
  /\ pc = "loop"
  /\ idx <= Len(fromProjects)
  /\ LET projectNameMatch == FindStringSubmatch(fromProject.ProjectId)
     IN IF Len(projectNameMatch) < 2
        THEN /\ pc' = "panic"
             /\ UNCHANGED projectName
        ELSE /\ pc' = "fetchFrom"
             /\ projectName' = projectNameMatch[2]
  /\ fromProjectQuotas' = <<>>
  /\ toProjectQuotas' = <<>>
  /\ UNCHANGED <<fromProjects, toProjects, idx, toProjectFound, issues, logs, calls>>

\* One pass of the loop head: the name is cut out of the from-project's id and
\* the target pattern compiled; indexing a nil match panics.
ExtractName ==
  /\ pc = "loop"
  /\ idx <= Len(fromProjects)
  /\ LET projectNameMatch == FindStringSubmatch(fromProject.ProjectId)
     IN IF Len(projectNameMatch) < 2
        THEN /\ pc' = "panic"
             /\ UNCHANGED projectName
        ELSE /\ pc' = "fetchFrom"
             /\ projectName' = projectNameMatch[2]
  /\ toProjectFound' = Nil
  /\ fromProjectQuotas' = Nil
  /\ toProjectQuotas' = Nil
  /\ UNCHANGED <<fromProjects, toProjects, idx, issues, logs, calls>>

\* err, fromProjectQuotas := GetQuotas(fromProject.ProjectId)
GetFromQuotas ==
  /\ pc = "fetchFrom"
  /\ \E res \in GetQuotas(fromProject.ProjectId) :
       /\ calls' = Append(calls, fromProject.ProjectId)
       /\ logs' = logs \o res.logs
       /\ fromProjectQuotas' = res.quotas
       /\ pc' = IF res.exits \/ res.err THEN "fatal" ELSE "search"
  /\ UNCHANGED <<fromProjects, toProjects, idx, projectName, toProjectFound,
                 toProjectQuotas, issues>>

\* SearchToProject with a fatal log in place of the silent skip.
SearchToProject_Abort ==
  /\ pc = "search"
  /\ toProjectFound' = FirstMatch(projectName, toProjects)
  /\ pc' = IF toProjectFound' = <<>> THEN "fatal" ELSE "fetchTo"
  /\ UNCHANGED <<fromProjects, toProjects, idx, projectName, fromProjectQuotas,
                 toProjectQuotas, issues, logs, calls>>

\* The scan of toProjects and the test of toProjectFound.
SearchToProject ==
  /\ pc = "search"
  /\ toProjectFound' = FirstMatch(projectName, toProjects)
  /\ IF toProjectFound' = Nil
     THEN /\ pc' = "loop"
          /\ idx' = idx + 1
     ELSE /\ pc' = "fetchTo"
          /\ UNCHANGED idx
  /\ UNCHANGED <<fromProjects, toProjects, projectName, fromProjectQuotas,
                 toProjectQuotas, issues, logs, calls>>

\* err, toProjectQuotas := GetQuotas(toProjectFound.ProjectId)
GetToQuotas ==
  /\ pc = "fetchTo"
  /\ \E res \in GetQuotas(toProjectFound[1].ProjectId) :
       /\ calls' = Append(calls, toProjectFound[1].ProjectId)
       /\ logs' = logs \o res.logs
       /\ toProjectQuotas' = res.quotas
       /\ pc' = IF res.exits \/ res.err THEN "fatal" ELSE "projectPass"
  /\ UNCHANGED <<fromProjects, toProjects, idx, projectName, toProjectFound,
                 fromProjectQuotas, issues>>

\* The loop over fromProjectQuotas.project.Quotas; a nil snapshot panics when
\* it is dereferenced.
CompareProject ==
  /\ pc = "projectPass"
  /\ IF fromProjectQuotas = Nil
     THEN /\ pc' = "panic"
          /\ UNCHANGED <<issues, logs>>
     ELSE IF fromProjectQuotas[1].project # <<>> /\ toProjectQuotas = Nil
     THEN /\ pc' = "panic"
          /\ UNCHANGED <<issues, logs>>
     ELSE LET out == IF fromProjectQuotas[1].project = <<>>
                     THEN [issues |-> <<>>, logs |-> <<>>]
                     ELSE CompareProjectQuotas(fromProjectQuotas[1].project,
                                               toProjectQuotas[1].project,
                                               fromProject, toProjectFound[1])
          IN /\ issues' = issues \o out.issues
             /\ logs' = logs \o out.logs
             /\ pc' = "regionPass"
  /\ UNCHANGED <<fromProjects, toProjects, idx, projectName, toProjectFound,
                 fromProjectQuotas, toProjectQuotas, calls>>

\* The loop over fromProjectQuotas.regionList.Items, then the next from-project.
CompareRegionLists ==
  /\ pc = "regionPass"
  /\ IF fromProjectQuotas[1].regionList = Nil
     THEN /\ pc' = "panic"
          /\ UNCHANGED <<issues, logs, idx>>
     ELSE IF /\ fromProjectQuotas[1].regionList[1] # <<>>
             /\ (toProjectQuotas = Nil \/ toProjectQuotas[1].regionList = Nil)
     THEN /\ pc' = "panic"
          /\ UNCHANGED <<issues, logs, idx>>
     ELSE LET out == IF fromProjectQuotas[1].regionList[1] = <<>>
                     THEN [issues |-> <<>>, logs |-> <<>>]
                     ELSE CompareRegions(fromProjectQuotas[1].regionList[1],
                                         toProjectQuotas[1].regionList[1],
                                         fromProject, toProjectFound[1])
          IN /\ issues' = issues \o out.issues
             /\ logs' = logs \o out.logs
             /\ idx' = idx + 1
             /\ pc' = "loop"
  /\ UNCHANGED <<fromProjects, toProjects, projectName, toProjectFound,
                 fromProjectQuotas, toProjectQuotas, calls>>

\* The range over fromProjects is exhausted: main returns.
Finish ==
  /\ pc = "loop"
  /\ idx > Len(fromProjects)
  /\ pc' = "done"
  /\ UNCHANGED <<fromProjects, toProjects, idx, projectName, toProjectFound,
                 fromProjectQuotas, toProjectQuotas, issues, logs, calls>>

Next ==
  \/ ExtractName
  \/ GetFromQuotas
  \/ SearchToProject
  \/ GetToQuotas
  \/ CompareProject
  \/ CompareRegionLists
  \/ Finish

Spec == Init /\ [][Next]_vars

\* The comparison on its own: one matched pair whose two GetQuotas calls have
\* returned, with snapshots drawn from the larger set.
BillingDev == [ProjectId |-> "prj-dev-billing-ab12", Name |-> "Billing Dev"]
BillingStaging == [ProjectId |-> "prj-stg-billing-ef56", Name |-> "Billing Staging"]

InitDiff ==
  /\ fromProjects = << BillingDev >>
  /\ toProjects = << BillingStaging >>
  /\ pc = "projectPass"
  /\ idx = 1
  /\ projectName = << "billing" >>
  /\ toProjectFound = Ptr(BillingStaging)
  /\ \E f \in QuotasOf(BillingDev.ProjectId, DiffSnapshots),
        t \in QuotasOf(BillingStaging.ProjectId, DiffSnapshots) :
       /\ ~f.exits /\ ~f.err /\ ~t.exits /\ ~t.err
       /\ fromProjectQuotas = f.quotas
       /\ toProjectQuotas = t.quotas
       /\ logs = f.logs \o t.logs
  /\ issues = <<>>
  /\ calls = << BillingDev.ProjectId, BillingStaging.ProjectId >>

NextDiff ==
  \/ CompareProject
  \/ CompareRegionLists
  \/ Finish

SpecDiff == InitDiff /\ [][NextDiff]_vars

\* ------------------------------------------------------------------ properties
\* What one step appends to the issue list and to the log.
IssuesAdded == SubSeq(issues', Len(issues) + 1, Len(issues'))
LogsAdded == SubSeq(logs', Len(logs) + 1, Len(logs'))

ProjectPassDone == pc = "projectPass" /\ pc' = "regionPass"
RegionPassDone == pc = "regionPass" /\ pc' = "loop"

\* The quota and region lists a pass compares (empty where a side has none).
FromQuotaList == fromProjectQuotas[1].project
ToQuotaList == IF toProjectQuotas = Nil THEN <<>> ELSE toProjectQuotas[1].project
FromRegionList ==
  IF fromProjectQuotas = Nil \/ fromProjectQuotas[1].regionList = Nil
  THEN <<>> ELSE fromProjectQuotas[1].regionList[1]
ToRegionList ==
  IF toProjectQuotas = Nil \/ toProjectQuotas[1].regionList = Nil
  THEN <<>> ELSE toProjectQuotas[1].regionList[1]

HasMetric(quotas, metric) == \E b \in 1..Len(quotas) : quotas[b].Metric = metric

\* The issue x pairs an entry of fromQuotas with a same-named entry of toQuotas
\* of another limit.
Paired(x, fromQuotas, toQuotas) ==
  \E a \in 1..Len(fromQuotas), b \in 1..Len(toQuotas) :
    /\ fromQuotas[a].Metric = x.metric
    /\ toQuotas[b].Metric = x.metric
    /\ fromQuotas[a].Limit = x.fromLimit
    /\ toQuotas[b].Limit = x.toLimit
    /\ x.fromLimit # x.toLimit

MissingNotice(region, metric) ==
  \E n \in 1..Len(LogsAdded) :
    /\ LogsAdded[n].kind = "metric_missing"
    /\ LogsAdded[n].region = region
    /\ LogsAdded[n].metric = metric

C1_ProjectPass ==
  ProjectPassDone =>
    /\ \A n \in 1..Len(IssuesAdded) :
         /\ IssuesAdded[n].region = ""
         /\ Paired(IssuesAdded[n], FromQuotaList, ToQuotaList)
    /\ \A a \in 1..Len(FromQuotaList) :
         ~HasMetric(ToQuotaList, FromQuotaList[a].Metric) =>
           /\ MissingNotice("", FromQuotaList[a].Metric)
           /\ \A n \in 1..Len(IssuesAdded) :
                IssuesAdded[n].metric # FromQuotaList[a].Metric

C1_RegionPass ==
  RegionPassDone =>
    /\ \A n \in 1..Len(IssuesAdded) :
         \E a \in 1..Len(FromRegionList), b \in 1..Len(ToRegionList) :
           /\ FromRegionList[a].Name = IssuesAdded[n].region
           /\ ToRegionList[b].Name = IssuesAdded[n].region
           /\ Paired(IssuesAdded[n], FromRegionList[a].Quotas, ToRegionList[b].Quotas)
    /\ \A a \in 1..Len(FromRegionList), b \in 1..Len(ToRegionList) :
         FromRegionList[a].Name = ToRegionList[b].Name =>
           \A q \in 1..Len(FromRegionList[a].Quotas) :
             LET metric == FromRegionList[a].Quotas[q].Metric
             IN ~HasMetric(ToRegionList[b].Quotas, metric) =>
                  /\ MissingNotice(ToRegionList[b].Name, metric)
                  /\ \A n \in 1..Len(IssuesAdded) :
                       ~(/\ IssuesAdded[n].region = FromRegionList[a].Name
                         /\ IssuesAdded[n].metric = metric)

\* C1: at project level and per region, every Discrepancy a step appends is for a
\* metric that both compared quota lists hold, with the two limits it records
\* unequal; a from-side metric without a same-named to-side entry gets a "metric
\* missing" notice and no Discrepancy; no other step appends a Discrepancy.
C1_OnlyPairedMetrics ==
  [][ /\ C1_ProjectPass
      /\ C1_RegionPass
      /\ (~ProjectPassDone /\ ~RegionPassDone) => issues' = issues ]_vars

\* A project-level pass that logged a missing metric and recorded one Discrepancy.
C1_Witness ==
  /\ pc = "regionPass"
  /\ Len(issues) = 1
  /\ Len(fromProjectQuotas[1].project) = 2
  /\ \E a \in 1..2 :
       ~HasMetric(toProjectQuotas[1].project, fromProjectQuotas[1].project[a].Metric)
  /\ \E n \in 1..Len(logs) : logs[n].kind = "metric_missing"

UniqueMetrics(quotas) ==
  \A a, b \in 1..Len(quotas) : quotas[a].Metric = quotas[b].Metric => a = b

\* The from-side entries that have a same-named to-side entry of another limit.
Differing(fromQuotas, toQuotas) ==
  { a \in 1..Len(fromQuotas) :
      \E b \in 1..Len(toQuotas) :
        /\ toQuotas[b].Metric = fromQuotas[a].Metric
        /\ toQuotas[b].Limit # fromQuotas[a].Limit }

IssuesOfRegion(region) ==
  { n \in 1..Len(IssuesAdded) : IssuesAdded[n].region = region }

C7_ProjectPass ==
  (ProjectPassDone /\ UniqueMetrics(FromQuotaList) /\ UniqueMetrics(ToQuotaList)) =>
    /\ Len(IssuesAdded) = Cardinality(Differing(FromQuotaList, ToQuotaList))
    /\ { IssuesAdded[n].metric : n \in 1..Len(IssuesAdded) }
         = { FromQuotaList[a].Metric : a \in Differing(FromQuotaList, ToQuotaList) }

C7_RegionPass ==
  RegionPassDone =>
    \A a \in 1..Len(FromRegionList), b \in 1..Len(ToRegionList) :
      ( /\ FromRegionList[a].Name = ToRegionList[b].Name
        /\ UniqueMetrics(FromRegionList[a].Quotas)
        /\ UniqueMetrics(ToRegionList[b].Quotas) ) =>
        LET d == Differing(FromRegionList[a].Quotas, ToRegionList[b].Quotas)
            added == IssuesOfRegion(FromRegionList[a].Name)
        IN /\ Cardinality(added) = Cardinality(d)
           /\ { IssuesAdded[n].metric : n \in added }
                = { FromRegionList[a].Quotas[q].Metric : q \in d }

\* C7: when the two compared quota lists name every metric once, a pass appends
\* as many Discrepancies as there are from-side metrics that the to-side holds
\* with another limit, for exactly those metrics (none for equal lists, one for
\* lists that differ in one limit).
C7_CountsDifferingMetrics == [][ C7_ProjectPass /\ C7_RegionPass ]_vars

\* Two lists of the same two metrics that differ in one limit gave one Discrepancy.
C7_Witness ==
  /\ pc = "regionPass"
  /\ Len(issues) = 1
  /\ Len(fromProjectQuotas[1].project) = 2
  /\ Len(toProjectQuotas[1].project) = 2
  /\ UniqueMetrics(fromProjectQuotas[1].project)
  /\ UniqueMetrics(toProjectQuotas[1].project)
  /\ Cardinality(Differing(fromProjectQuotas[1].project, toProjectQuotas[1].project)) = 1
  /\ issues[1].metric \in
       { fromProjectQuotas[1].project[a].Metric :
           a \in Differing(fromProjectQuotas[1].project, toProjectQuotas[1].project) }

\* C2 (as claimed): once the comparison of a matched pair is over, a pair with a
\* missing snapshot on either side has aborted the run; it never reaches the
\* next from-project or the end of main.
C2_FetchFailureAborts ==
  ( /\ toProjectFound # Nil
    /\ (fromProjectQuotas = Nil \/ toProjectQuotas = Nil) ) =>
    pc \notin {"loop", "done"}

\* C3 (as claimed): a pair whose project queries both succeeded and whose region
\* query failed on either side does not abort the run.
C3_RegionFailureRecovers ==
  ( /\ fromProjectQuotas # Nil
    /\ toProjectQuotas # Nil
    /\ (fromProjectQuotas[1].regionList = Nil \/ toProjectQuotas[1].regionList = Nil) ) =>
    pc # "panic"

NoName(id) == Len(FindStringSubmatch(id)) < 2

\* C4: a from-project whose id gives no name panics the run at the loop head,
\* before any quota call or Discrepancy for it, and no step follows a panic.
C4_NoNameIsFatal ==
  [][ /\ pc # "panic"
      /\ (pc = "loop" /\ idx <= Len(fromProjects) /\ NoName(fromProject.ProjectId)) =>
           /\ pc' = "panic"
           /\ idx' = idx
           /\ issues' = issues
           /\ calls' = calls ]_vars

\* The run panicked on a nameless from-project with another one still to come.
C4_Witness ==
  /\ pc = "panic"
  /\ idx < Len(fromProjects)
  /\ NoName(fromProject.ProjectId)

HasTarget(name) ==
  \E k \in 1..Len(toProjects) : MatchString(name, toProjects[k].ProjectId)

\* The from-project before the current one was skipped for want of a match.
Skipped == pc = "loop" /\ idx > 1 /\ toProjectFound = Nil

\* C5 (as claimed): a from-project without a matching to-project is skipped with
\* a notice in the log, without a Discrepancy, and the run goes on.
C5_SkipWithNotice ==
  Skipped =>
    /\ \E n \in 1..Len(logs) : logs[n].project = fromProjects[idx - 1].ProjectId
    /\ \A n \in 1..Len(issues) : issues[n].fromProjectId # fromProjects[idx - 1].Name

\* C5 (amended): when no to-project matches, the search step goes straight to the
\* next from-project: nothing is logged, no Discrepancy is appended, no quota
\* call is made and the run is not aborted.
C5_SilentSkip ==
  [][ (pc = "search" /\ ~HasTarget(projectName)) =>
        /\ pc' = "loop"
        /\ idx' = idx + 1
        /\ issues' = issues
        /\ logs' = logs
        /\ calls' = calls ]_vars

\* A from-project was skipped and another from-project is still to be processed.
C5_Witness ==
  /\ Skipped
  /\ idx <= Len(fromProjects)
  /\ ~HasTarget(projectName)

\* The project is the first of toProjects whose id matches the name.
IsFirstTarget(name, project) ==
  \E k \in 1..Len(toProjects) :
    /\ toProjects[k] = project
    /\ MatchString(name, toProjects[k].ProjectId)
    /\ \A j \in 1..(k - 1) : ~MatchString(name, toProjects[j].ProjectId)

\* C6: the to-project found for a from-project is the first of toProjects, in
\* list order, whose id matches the pattern built from the from-project's name;
\* its quotas are the only to-side quotas fetched for that from-project.
C6_FirstMatchWins ==
  [][ /\ pc = "search" =>
           LET name == FindStringSubmatch(fromProject.ProjectId)[2]
           IN IF HasTarget(name)
              THEN toProjectFound' # Nil /\ IsFirstTarget(name, toProjectFound'[1])
              ELSE toProjectFound' = Nil
      /\ pc \notin {"search", "loop"} => toProjectFound' = toProjectFound
      /\ pc = "fetchTo" =>
           /\ calls' = Append(calls, toProjectFound[1].ProjectId)
           /\ pc' # "fetchTo"
      /\ pc' = "fetchTo" => pc = "search" ]_vars

\* Two to-projects match and the pair is compared with the first of them.
C6_Witness ==
  /\ pc = "projectPass"
  /\ Len(toProjects) = 2
  /\ MatchString(projectName, toProjects[1].ProjectId)
  /\ MatchString(projectName, toProjects[2].ProjectId)
  /\ toProjectFound = Ptr(toProjects[1])
  /\ calls[Len(calls)] = toProjects[1].ProjectId

\* C8 (as claimed): every Discrepancy carries the id of a from-project and the
\* id of the to-project matched with it, and the region of a region list or none.
C8_IssueCarriesIds ==
  \A n \in 1..Len(issues) :
    /\ \E f \in 1..Len(fromProjects) :
         /\ issues[n].fromProjectId = fromProjects[f].ProjectId
         /\ ~NoName(fromProjects[f].ProjectId)
         /\ FirstMatch(FindStringSubmatch(fromProjects[f].ProjectId)[2], toProjects) # Nil
         /\ issues[n].toProjectId =
              FirstMatch(FindStringSubmatch(fromProjects[f].ProjectId)[2],
                         toProjects)[1].ProjectId
    /\ issues[n].region \in RegionNames \cup {""}
    /\ issues[n].fromLimit \in Limits
    /\ issues[n].toLimit \in Limits

\* The from-side regions that the to-side does not have.
MissingRegions ==
  { a \in 1..Len(FromRegionList) :
      \A b \in 1..Len(ToRegionList) : ToRegionList[b].Name # FromRegionList[a].Name }

\* C9 (as claimed): once the region pass of a pair with both snapshots is over,
\* every from-side region that the to-side lacks has one "region missing" notice
\* and no Discrepancy, and the pass has not stopped the run.
C9_MissingRegionNoticed ==
  ( /\ pc \in {"loop", "done", "panic"}
    /\ fromProjectQuotas # Nil
    /\ toProjectQuotas # Nil
    /\ fromProjectQuotas[1].regionList # Nil ) =>
    \A a \in MissingRegions :
      /\ pc # "panic"
      /\ Cardinality({ n \in 1..Len(logs) :
                         /\ logs[n].kind = "region_missing"
                         /\ logs[n].region = FromRegionList[a].Name }) = 1
      /\ \A n \in 1..Len(issues) : issues[n].region # FromRegionList[a].Name

FetchedFor(f) == \E c \in 1..Len(calls) : calls[c] = fromProjects[f].ProjectId

\* C10 (as claimed): a from-project whose quotas have been fetched has a
\* matching to-project, found before the fetch.
C10_FetchOnlyAfterMatch ==
  \A f \in 1..Len(fromProjects) :
    FetchedFor(f) =>
      /\ ~NoName(fromProjects[f].ProjectId)
      /\ HasTarget(FindStringSubmatch(fromProjects[f].ProjectId)[2])
      /\ (f = idx /\ pc \in {"search", "fatal"}) => toProjectFound # Nil

\* C10 (amended): the from-project's quotas are fetched once its name has been
\* extracted and before toProjects is searched, whether or not a to-project
\* matches; only the to-project's quotas are fetched after the match, for the
\* matched to-project, right after the from-project's.
C10_ToFetchAfterMatch ==
  [][ calls' # calls =>
        \/ /\ pc = "fetchFrom"
           /\ toProjectFound = Nil
           /\ calls' = Append(calls, fromProject.ProjectId)
        \/ /\ pc = "fetchTo"
           /\ IsFirstTarget(projectName, toProjectFound[1])
           /\ calls[Len(calls)] = fromProject.ProjectId
           /\ calls' = Append(calls, toProjectFound[1].ProjectId) ]_vars

\* The quotas of a from-project without any matching to-project were fetched.
C10_Witness ==
  /\ pc = "search"
  /\ ~HasTarget(projectName)
  /\ calls # <<>>
  /\ calls[Len(calls)] = fromProject.ProjectId

====
